---- MODULE Spec2Model ----
(***************************************************************************)
(* The PoseNet "eat-medicine" service: POST /pose in its three revisions   *)
(* (src/unnamed/part_000, src/unnamed/part_001, src/index.js).             *)
(*                                                                         *)
(* Numbers.  The handler computes with JavaScript doubles.  Every number   *)
(* it computes from integer pixel positions has the form (a + b*sqrt(n))/q *)
(* or is +Infinity, and the model keeps that value exactly, as the record  *)
(* [inf, a, b, n, q].  Comparisons and toFixed are computed on the exact   *)
(* value by integer arithmetic.  The one place where double rounding       *)
(* changes an outcome for such inputs is the comparison                    *)
(* confidence >= 0.1 when d is exactly 0.9 * THRESHOLD_DISTANCE:           *)
(* d / THRESHOLD_DISTANCE rounds to the double just above 0.9, so          *)
(* 1 - 0.9 evaluates to 0.09999999999999998 < 0.1 (see NumGeqDouble).      *)
(***************************************************************************)
EXTENDS Integers, Sequences, FiniteSets, TLC

\* ------------------------------------------------------------- numbers

Finite(a0, b0, n0, q0) == [inf |-> 0, a |-> a0, b |-> b0, n |-> n0, q |-> q0]

NumInt(k) == Finite(k, 0, 0, 1)

Infinity == [inf |-> 1, a |-> 0, b |-> 0, n |-> 0, q |-> 1]

NegInfinity == [inf |-> -1, a |-> 0, b |-> 0, n |-> 0, q |-> 1]

Sgn(k) == IF k > 0 THEN 1 ELSE IF k < 0 THEN -1 ELSE 0

\* floor(sqrt(n)) for a natural n
RECURSIVE Isqrt(_)
Isqrt(n) ==
  IF n < 2 THEN n
  ELSE LET s == 2 * Isqrt(n \div 4)
       IN IF (s + 1) * (s + 1) <= n THEN s + 1 ELSE s

\* the sign of A + B*sqrt(n)
SurdSign(A, B, n) ==
  LET B2n == B * B * n
  IN IF n = 0 \/ B = 0 THEN Sgn(A)
     ELSE IF A = 0 THEN Sgn(B)
     ELSE IF Sgn(A) = Sgn(B) THEN Sgn(A)
     ELSE IF A * A = B2n THEN 0
     ELSE IF A * A > B2n THEN Sgn(A) ELSE Sgn(B)

NumSign(x) == IF x.inf # 0 THEN x.inf ELSE SurdSign(x.a, x.b, x.n)

\* the sign of x - p/r, for a rational p/r with r > 0
NumCmpRat(x, p, r) ==
  IF x.inf # 0 THEN x.inf
  ELSE SurdSign(r * x.a - p * x.q, r * x.b, x.n)

\* the sign of x - y
NumCmp(x, y) ==
  CASE x.inf # 0 \/ y.inf # 0 -> Sgn(x.inf - y.inf)
    [] y.b = 0 \/ y.n = 0 -> NumCmpRat(x, y.a, y.q)
    [] x.b = 0 \/ x.n = 0 -> 0 - NumCmpRat(y, x.a, x.q)
    [] x.q = y.q /\ x.a = y.a ->
         Sgn(Sgn(x.b) * x.b * x.b * x.n - Sgn(y.b) * y.b * y.b * y.n)

\* Math.sqrt of a natural number
MathSqrt(m) == Finite(0, 1, m, 1)

\* x / k for a positive integer k
NumDiv(x, k) ==
  IF x.inf # 0 THEN x ELSE Finite(x.a, x.b, x.n, x.q * k)

\* k - x for an integer k
NumSubFrom(k, x) ==
  IF x.inf = 1 THEN NegInfinity
  ELSE IF x.inf = -1 THEN Infinity
  ELSE Finite(k * x.q - x.a, 0 - x.b, x.n, x.q)

\* Math.max(0, x)
MathMax0(x) == IF NumSign(x) < 0 THEN NumInt(0) ELSE x

\* Math.min(x, y)
MathMin(x, y) == IF NumCmp(x, y) <= 0 THEN x ELSE y

\* confidence >= p/r as the doubles decide it, for confidence = max(0, 1 - d/T).
\* The exact values are equal only when d/T is exactly 1 - p/r (0.9 for the
\* acceptance threshold 0.1); the double nearest 0.9 lies above 0.9, so the
\* computed 1 - d/T is 0.09999999999999998 and the comparison is false.
NumGeqDouble(x, p, r) == NumCmpRat(x, p, r) > 0

\* One more decimal digit of a square root: st.root = floor(10^k sqrt(n)) and
\* st.rem = 10^(2k) n - st.root^2 become the same for k + 1.
SqrtStep(st) ==
  LET j == CHOOSE i \in 0..9 :
             /\ 20 * st.root * i + i * i <= 100 * st.rem
             /\ (i = 9 \/ 20 * st.root * (i + 1) + (i + 1) * (i + 1) > 100 * st.rem)
  IN [root |-> 10 * st.root + j,
      rem |-> 100 * st.rem - 20 * st.root * j - j * j]

RECURSIVE SqrtDigits(_, _)
SqrtDigits(n, k) ==
  IF k = 0 THEN [root |-> Isqrt(n), rem |-> n - Isqrt(n) * Isqrt(n)]
  ELSE SqrtStep(SqrtDigits(n, k - 1))

RECURSIVE Pow10(_)
Pow10(f) == IF f = 0 THEN 1 ELSE 10 * Pow10(f - 1)

\* floor(2 * 10^f * sqrt(n)), and whether 2 * 10^f * sqrt(n) is that integer
FloorTwiceScaledSqrt(n, f) ==
  LET st == SqrtDigits(n, f)
      up == 4 * st.root + 1 <= 4 * st.rem
  IN [floor |-> 2 * st.root + (IF up THEN 1 ELSE 0),
      exact |-> st.rem = 0]

\* Number.prototype.toFixed(f) followed by parseFloat: x rounded to f decimals
\* (ties to the larger), as the integer count of 10^-f units; Infinity stays.
\* x has b in {-1, 0, 1}.
ToFixed(x, f) ==
  IF x.inf # 0 THEN [inf |-> x.inf, units |-> 0, scale |-> Pow10(f)]
  ELSE LET s == FloorTwiceScaledSqrt(x.n, f)
           twice == 2 * Pow10(f) * x.a + x.q
                    + (IF x.b = 0 THEN 0
                       ELSE IF x.b = 1 THEN s.floor
                       ELSE 0 - (IF s.exact THEN s.floor ELSE s.floor + 1))
       IN [inf |-> 0, units |-> twice \div (2 * x.q), scale |-> Pow10(f)]

\* JSON.stringify of a number: Infinity is written as null
JsonNumber(v) == IF v.inf # 0 THEN [null |-> TRUE, units |-> 0, scale |-> v.scale]
                 ELSE [null |-> FALSE, units |-> v.units, scale |-> v.scale]

\* ------------------------------------------------------ bounds and inputs

\* concurrent POST /pose requests in one process
NumRequests == 2

\* wrist and nose positions: each anchor, moved down by 30 * k pixels for
\* k in 0..MaxShift
MaxShift == 1

Revisions == {"part_000", "part_001", "index"}

Requests == 1..NumRequests

Pt(px, py) == [x |-> px, y |-> py]

WristAnchors ==
  {Pt(0, 0), Pt(3, 4), Pt(4, 3), Pt(6, 8), Pt(495, 0), Pt(550, 0),
   Pt(1349, 0), Pt(1350, 0), Pt(1500, 0)}

Shifted(anchors) ==
  {Pt(p.x, p.y + 30 * k) : p \in anchors, k \in 0..MaxShift}

\* detection scores, in hundredths
Scores == {49, 50}

NoPoint == [part |-> "none"]

\* what the estimator may report for one body part: nothing, or a keypoint
Reports(part, positions) ==
  {NoPoint} \cup
  {[part |-> part, score |-> sc, position |-> p] : sc \in Scores, p \in positions}

\* pose.keypoints: the reported keypoints, in the estimator's part order
Keypoints(nose, eye, lw, rw) ==
  SelectSeq(<<nose, eye, lw, rw>>, LAMBDA k : k # NoPoint)

DecidePoses ==
  {Keypoints(n, e, l, r) :
     n \in Reports("nose", Shifted({Pt(0, 0)})),
     e \in Reports("leftEye", {Pt(5, 5)}) \ {[part |-> "leftEye", score |-> 49, position |-> Pt(5, 5)]},
     l \in Reports("leftWrist", Shifted(WristAnchors)),
     r \in Reports("rightWrist", Shifted(WristAnchors))}

ServePoses ==
  {Keypoints(n, NoPoint, l, r) :
     n \in Reports("nose", {Pt(0, 0)}),
     l \in Reports("leftWrist", {Pt(3, 4)}),
     r \in {NoPoint, [part |-> "rightWrist", score |-> 50, position |-> Pt(6, 8)]}}

\* ------------------------------------------------------- decision logic

MinScore == 50

ACCEPTANCE_THRESHOLD == [num |-> 1, den |-> 10]

THRESHOLD_DISTANCE(revision) == IF revision = "index" THEN 1500 ELSE 550

TrackedParts == {"nose", "leftWrist", "rightWrist"}

\* index.js: Euclidean distance
dist(a, b) ==
  LET dx == a.x - b.x
      dy == a.y - b.y
  IN MathSqrt(dx * dx + dy * dy)

\* part_000: Euclidean distance
euclideanDistance(a, b) ==
  MathSqrt((a.x - b.x) * (a.x - b.x) + (a.y - b.y) * (a.y - b.y))

\* variant: no score filter, as in part_000 and part_001
ScoreTooLow_never(point) == FALSE

\* index.js: a keypoint below the minimum score is skipped
ScoreTooLow(point) == point.score < MinScore

\* the loop that builds kp: a later keypoint of the same part overwrites an
\* earlier one; only index.js skips low scores
RECURSIVE BuildKp(_, _, _)
BuildKp(revision, keypoints, kp) ==
  IF keypoints = <<>> THEN kp
  ELSE LET point == Head(keypoints)
           keep == /\ ~(revision = "index" /\ ScoreTooLow(point))
                   /\ point.part \in TrackedParts
           kp2 == IF keep
                  THEN [p \in (DOMAIN kp) \cup {point.part} |->
                          IF p = point.part THEN point.position ELSE kp[p]]
                  ELSE kp
       IN BuildKp(revision, Tail(keypoints), kp2)

EmptyKp == [p \in {} |-> Pt(0, 0)]

Has(kp, part) == part \in DOMAIN kp

\* variant: the linear decay without the clamp at 0
Confidence_noClamp(d, T) == NumSubFrom(1, NumDiv(d, T))

\* confidence = Math.max(0, 1 - d / THRESHOLD_DISTANCE)
Confidence(d, T) == MathMax0(NumSubFrom(1, NumDiv(d, T)))

\* accepted: confidence >= ACCEPTANCE_THRESHOLD
Accepted(confidence) ==
  NumGeqDouble(confidence, ACCEPTANCE_THRESHOLD.num, ACCEPTANCE_THRESHOLD.den)

\* index.js: nearestHand = kp.rightWrist || kp.leftWrist
NearestHand(kp) == IF Has(kp, "rightWrist") THEN "rightWrist" ELSE "leftWrist"

\* variant: the two labels exchanged
ClosestHand_swapped(minDist, distLeft) ==
  IF NumCmp(minDist, distLeft) = 0 THEN "rightWrist" ELSE "leftWrist"

\* closestHand = minDist === distLeft ? "leftWrist" : "rightWrist"
ClosestHand(minDist, distLeft) ==
  IF NumCmp(minDist, distLeft) = 0 THEN "leftWrist" ELSE "rightWrist"

\* res.status(400).json({ error: "Nose not detected" ... })
NoseNotDetected(revision) ==
  IF revision = "index"
  THEN [status |-> 400, error |-> "Nose not detected", accepted |-> FALSE]
  ELSE [status |-> 400, error |-> "Nose not detected"]

\* variant: the missing-wrist rejection with the missing-nose error text
NoWristDetected_asNose ==
  [status |-> 400, error |-> "Nose not detected", accepted |-> FALSE]

\* index.js: res.status(400).json({ error: "No wrist detected", accepted: false })
NoWristDetected ==
  [status |-> 400, error |-> "No wrist detected", accepted |-> FALSE]

\* index.js: the Judgment, once nose and a wrist are in kp
Judge_index(kp) ==
  LET hand == NearestHand(kp)
      d == dist(kp[hand], kp["nose"])
      confidence == Confidence(d, THRESHOLD_DISTANCE("index"))
  IN [kind |-> "judgment", kp |-> kp, unlink |-> TRUE,
      hand |-> hand, d |-> d, confidence |-> confidence,
      response |-> [status |-> 200,
                    distance |-> JsonNumber(ToFixed(d, 2)),
                    accepted |-> Accepted(confidence),
                    confidence |-> JsonNumber(ToFixed(confidence, 3))]]

\* variant: the wrist check placed before the nose check
Decide_index_wristFirst(keypoints) ==
  LET kp == BuildKp("index", keypoints, EmptyKp)
  IN IF ~Has(kp, "rightWrist") /\ ~Has(kp, "leftWrist")
     THEN [kind |-> "rejection", kp |-> kp, unlink |-> FALSE,
           response |-> NoWristDetected]
     ELSE IF ~Has(kp, "nose")
     THEN [kind |-> "rejection", kp |-> kp, unlink |-> FALSE,
           response |-> NoseNotDetected("index")]
     ELSE Judge_index(kp)

\* The handler after the estimator has answered, in src/index.js (lines 67-99).
\* unlink: whether this path removes the uploaded file.
Decide_index(keypoints) ==
  LET kp == BuildKp("index", keypoints, EmptyKp)
  IN IF ~Has(kp, "nose")
     THEN [kind |-> "rejection", kp |-> kp, unlink |-> FALSE,
           response |-> NoseNotDetected("index")]
     ELSE IF ~Has(kp, "rightWrist") /\ ~Has(kp, "leftWrist")
     THEN [kind |-> "rejection", kp |-> kp, unlink |-> FALSE,
           response |-> NoWristDetected]
     ELSE Judge_index(kp)

\* The same in src/unnamed/part_001 (lines 64-98).
Decide_part_001(keypoints) ==
  LET kp == BuildKp("part_001", keypoints, EmptyKp)
  IN IF ~Has(kp, "nose")
     THEN [kind |-> "rejection", kp |-> kp, unlink |-> FALSE,
           response |-> NoseNotDetected("part_001")]
     ELSE LET distLeft == IF Has(kp, "leftWrist")
                          THEN dist(kp["leftWrist"], kp["nose"]) ELSE Infinity
              distRight == IF Has(kp, "rightWrist")
                           THEN dist(kp["rightWrist"], kp["nose"]) ELSE Infinity
              minDist == MathMin(distLeft, distRight)
              closestHand == ClosestHand(minDist, distLeft)
              confidenceDecimal == Confidence(minDist, THRESHOLD_DISTANCE("part_001"))
          IN [kind |-> "judgment", kp |-> kp, unlink |-> TRUE,
              hand |-> closestHand, d |-> minDist, confidence |-> confidenceDecimal,
              response |-> [status |-> 200,
                            closestHand |-> closestHand,
                            distance |-> JsonNumber(ToFixed(minDist, 2)),
                            accepted |-> Accepted(confidenceDecimal)]]

\* The same in src/unnamed/part_000 (lines 47-81).
Decide_part_000(keypoints) ==
  LET kp == BuildKp("part_000", keypoints, EmptyKp)
  IN IF ~Has(kp, "nose")
     THEN [kind |-> "rejection", kp |-> kp, unlink |-> FALSE,
           response |-> NoseNotDetected("part_000")]
     ELSE LET distLeft == IF Has(kp, "leftWrist")
                          THEN euclideanDistance(kp["leftWrist"], kp["nose"])
                          ELSE Infinity
              distRight == IF Has(kp, "rightWrist")
                           THEN euclideanDistance(kp["rightWrist"], kp["nose"])
                           ELSE Infinity
              minDist == MathMin(distLeft, distRight)
              closestHand == ClosestHand(minDist, distLeft)
              confidenceDecimal == Confidence(minDist, THRESHOLD_DISTANCE("part_000"))
          IN [kind |-> "judgment", kp |-> kp, unlink |-> TRUE,
              hand |-> closestHand, d |-> minDist, confidence |-> confidenceDecimal,
              response |-> [status |-> 200,
                            closestHand |-> closestHand,
                            distance |-> JsonNumber(ToFixed(minDist, 2)),
                            accepted |-> Accepted(confidenceDecimal)]]

Decide(revision, keypoints) ==
  CASE revision = "index" -> Decide_index(keypoints)
    [] revision = "part_001" -> Decide_part_001(keypoints)
    [] revision = "part_000" -> Decide_part_000(keypoints)

\* -------------------------------------------------------- the service

VARIABLES
  rev,        \* which revision of the program runs
  net,        \* the module-level net: 0 (undefined) or the id of a loaded model
  loadCalls,  \* how many times posenet.load has been invoked
  warmups,    \* how many warm-up inferences have been started (index.js)
  startup,    \* part_000's load at server start: "loading", "done"; else "none"
  pc,         \* where each request's handler stands
  hasFile,    \* whether the request carried an image (req.file)
  awaiting,   \* the posenet.load call a handler awaits (its id)
  files,      \* the uploaded temp files that exist, by request
  input,      \* pose.keypoints as the estimator returned them
  outcome,    \* the handler's locals on its decision path
  response,   \* the HTTP response sent
  thrown,     \* the exception the handler's catch block received
  usedNet     \* the model the request's estimateSinglePose ran on

vars == <<rev, net, loadCalls, warmups, startup, pc, hasFile, awaiting, files,
          input, outcome, response, thrown, usedNet>>

NoResponse == [status |-> 0]

NoOutcome == [kind |-> "none"]

Init ==
  /\ rev \in Revisions
  /\ net = 0
  /\ loadCalls = (IF rev = "part_000" THEN 1 ELSE 0)
  /\ warmups = 0
  /\ startup = (IF rev = "part_000" THEN "loading" ELSE "none")
  /\ pc = [r \in Requests |-> "new"]
  /\ hasFile = [r \in Requests |-> FALSE]
  /\ awaiting = [r \in Requests |-> 0]
  /\ files = {}
  /\ input = [r \in Requests |-> <<>>]
  /\ outcome = [r \in Requests |-> NoOutcome]
  /\ response = [r \in Requests |-> NoResponse]
  /\ thrown = [r \in Requests |-> "none"]
  /\ usedNet = [r \in Requests |-> 0]

\* part_000: the load started at server start resolves
StartupLoadResolve ==
  /\ rev = "part_000"
  /\ startup = "loading"
  /\ net' = 1
  /\ startup' = "done"
  /\ UNCHANGED <<rev, loadCalls, warmups, pc, hasFile, awaiting, files, input,
                 outcome, response, thrown, usedNet>>

\* if (!req.file) return 400, else the handler calls loadImage and awaits it
FileCheck(r, uploaded) ==
  IF ~uploaded
  THEN /\ pc' = [pc EXCEPT ![r] = "done"]
       /\ response' = [response EXCEPT
                         ![r] = [status |-> 400, error |-> "No image uploaded"]]
  ELSE /\ pc' = [pc EXCEPT ![r] = "await_image"]
       /\ UNCHANGED response

\* the handler's catch block
ErrorResponse(revision, message) ==
  IF revision = "part_000"
  THEN [status |-> 500, error |-> "Pose estimation failed"]
  ELSE [status |-> 500, error |-> "Pose estimation failed", details |-> message]

CatchUnlinks(revision, r) ==
  revision # "part_000" /\ hasFile[r] /\ r \in files

Catch(r, message) ==
  /\ thrown' = [thrown EXCEPT ![r] = message]
  /\ files' = (IF CatchUnlinks(rev, r) THEN files \ {r} ELSE files)
  /\ response' = [response EXCEPT ![r] = ErrorResponse(rev, message)]
  /\ pc' = [pc EXCEPT ![r] = "done"]

\* if (!net) in initModel
NeedsLoad(handle) == handle = 0

\* A request arrives: multer stores the upload, the handler starts and runs to
\* its first await.
Arrive(r) ==
  /\ pc[r] = "new"
  /\ \E uploaded \in BOOLEAN :
       /\ hasFile' = [hasFile EXCEPT ![r] = uploaded]
       /\ files' = (IF uploaded THEN files \cup {r} ELSE files)
       /\ IF rev = "part_000"
          THEN /\ FileCheck(r, uploaded)
               /\ UNCHANGED <<loadCalls, awaiting>>
          ELSE IF NeedsLoad(net)
          THEN /\ loadCalls' = loadCalls + 1
               /\ awaiting' = [awaiting EXCEPT ![r] = loadCalls + 1]
               /\ pc' = [pc EXCEPT ![r] = "await_load"]
               /\ UNCHANGED response
          ELSE /\ pc' = [pc EXCEPT ![r] = "after_init"]
               /\ UNCHANGED <<loadCalls, awaiting, response>>
  /\ UNCHANGED <<rev, net, warmups, startup, input, outcome, thrown, usedNet>>

\* initModel: posenet.load resolves; index.js then starts the warm-up inference
LoadResolve(r) ==
  /\ pc[r] = "await_load"
  /\ net' = awaiting[r]
  /\ IF rev = "index"
     THEN /\ warmups' = warmups + 1
          /\ pc' = [pc EXCEPT ![r] = "await_warmup"]
     ELSE /\ pc' = [pc EXCEPT ![r] = "after_init"]
          /\ UNCHANGED warmups
  /\ UNCHANGED <<rev, loadCalls, startup, hasFile, awaiting, files, input,
                 outcome, response, thrown, usedNet>>

\* initModel: posenet.load rejects, and the handler's catch block runs
LoadReject(r) ==
  /\ pc[r] = "await_load"
  /\ Catch(r, "load failed")
  /\ UNCHANGED <<rev, net, loadCalls, warmups, startup, hasFile, awaiting,
                 input, outcome, usedNet>>

\* index.js: the warm-up inference resolves and initModel returns
WarmupResolve(r) ==
  /\ pc[r] = "await_warmup"
  /\ pc' = [pc EXCEPT ![r] = "after_init"]
  /\ UNCHANGED <<rev, net, loadCalls, warmups, startup, hasFile, awaiting,
                 files, input, outcome, response, thrown, usedNet>>

\* index.js: the warm-up inference rejects; the rejection leaves initModel and
\* reaches the handler's catch block, and net stays set
WarmupReject(r) ==
  /\ pc[r] = "await_warmup"
  /\ Catch(r, "estimator failed")
  /\ UNCHANGED <<rev, net, loadCalls, warmups, startup, hasFile, awaiting,
                 input, outcome, usedNet>>

\* the handler continues after await initModel()
AfterInit(r) ==
  /\ pc[r] = "after_init"
  /\ FileCheck(r, hasFile[r])
  /\ UNCHANGED <<rev, net, loadCalls, warmups, startup, hasFile, awaiting,
                 files, input, outcome, thrown, usedNet>>

\* loadImage resolves; the handler draws the canvas and calls
\* net.estimateSinglePose, which throws a TypeError while net is undefined
ImageLoaded(r) ==
  /\ pc[r] = "await_image"
  /\ IF net = 0
     THEN /\ Catch(r, "TypeError: net is undefined")
          /\ UNCHANGED usedNet
     ELSE /\ usedNet' = [usedNet EXCEPT ![r] = net]
          /\ pc' = [pc EXCEPT ![r] = "await_pose"]
          /\ UNCHANGED <<files, response, thrown>>
  /\ UNCHANGED <<rev, net, loadCalls, warmups, startup, hasFile, awaiting,
                 input, outcome>>

\* loadImage rejects (the upload is not an image)
ImageFailed(r) ==
  /\ pc[r] = "await_image"
  /\ Catch(r, "image failed")
  /\ UNCHANGED <<rev, net, loadCalls, warmups, startup, hasFile, awaiting,
                 input, outcome, usedNet>>

\* the estimator answers: the handler builds kp, decides and responds
PoseResolve(r, poses) ==
  /\ pc[r] = "await_pose"
  /\ \E keypoints \in poses :
       LET o == Decide(rev, keypoints)
       IN /\ input' = [input EXCEPT ![r] = keypoints]
          /\ outcome' = [outcome EXCEPT ![r] = o]
          /\ files' = (IF o.unlink THEN files \ {r} ELSE files)
          /\ response' = [response EXCEPT ![r] = o.response]
  /\ pc' = [pc EXCEPT ![r] = "done"]
  /\ UNCHANGED <<rev, net, loadCalls, warmups, startup, hasFile, awaiting,
                 thrown, usedNet>>

\* the estimator throws
PoseFailed(r) ==
  /\ pc[r] = "await_pose"
  /\ Catch(r, "estimator failed")
  /\ UNCHANGED <<rev, net, loadCalls, warmups, startup, hasFile, awaiting,
                 input, outcome, usedNet>>

Handler(r, poses) ==
  \/ Arrive(r)
  \/ LoadResolve(r)
  \/ LoadReject(r)
  \/ WarmupResolve(r)
  \/ WarmupReject(r)
  \/ AfterInit(r)
  \/ ImageLoaded(r)
  \/ ImageFailed(r)
  \/ PoseResolve(r, poses)
  \/ PoseFailed(r)

\* the service under concurrent requests
Next ==
  \/ StartupLoadResolve
  \/ \E r \in Requests : Handler(r, ServePoses)

Spec == Init /\ [][Next]_vars

\* one request, over the whole range of estimator outputs
NextDecide ==
  \/ StartupLoadResolve
  \/ Handler(1, DecidePoses)

SpecDecide == Init /\ [][NextDecide]_vars

\* ---------------------------------------------------------- properties

Wrists == {"leftWrist", "rightWrist"}

\* the request's handler reached its decision (the estimator answered)
Decided(r) == outcome[r].kind # "none"

Judged(r) == outcome[r].kind = "judgment"

JudgmentFields == {"distance", "confidence", "closestHand"}

\* the squared pixel distance between two parts of a KeypointSet
DistSq(kp, p1, p2) ==
  (kp[p1].x - kp[p2].x) * (kp[p1].x - kp[p2].x)
  + (kp[p1].y - kp[p2].y) * (kp[p1].y - kp[p2].y)

PresentWrists(kp) == Wrists \cap DOMAIN kp

\* a distance as the response reports it: two decimals
Reported(dsq) == JsonNumber(ToFixed(MathSqrt(dsq), 2))

\* C1: a request whose KeypointSet has no nose is answered 400 "Nose not
\* detected", with no distance, confidence or closestHand, whatever wrists
\* the KeypointSet holds.
C1_NoseAbsentRejected ==
  \A r \in Requests :
    (Decided(r) /\ ~Has(outcome[r].kp, "nose")) =>
      /\ outcome[r].kind = "rejection"
      /\ response[r].status = 400
      /\ "error" \in DOMAIN response[r]
      /\ response[r].error = "Nose not detected"
      /\ JudgmentFields \cap DOMAIN response[r] = {}

C1_Witness ==
  \E r \in Requests :
    /\ pc[r] = "done"
    /\ Decided(r)
    /\ ~Has(outcome[r].kp, "nose")
    /\ PresentWrists(outcome[r].kp) = Wrists
    /\ response[r].status = 400

\* C2: in src/index.js a request whose KeypointSet has the nose and no wrist is
\* answered 400 "No wrist detected", an error other than the missing-nose one,
\* and no distance or confidence is computed.
C2_NoWristRejected ==
  \A r \in Requests :
    (rev = "index" /\ Decided(r) /\ Has(outcome[r].kp, "nose")
       /\ PresentWrists(outcome[r].kp) = {}) =>
      /\ outcome[r].kind = "rejection"
      /\ response[r].status = 400
      /\ "error" \in DOMAIN response[r]
      /\ response[r].error = "No wrist detected"
      /\ response[r].error # NoseNotDetected(rev).error
      /\ JudgmentFields \cap DOMAIN response[r] = {}

C2_Witness ==
  \E r \in Requests :
    /\ rev = "index"
    /\ pc[r] = "done"
    /\ Decided(r)
    /\ Has(outcome[r].kp, "nose")
    /\ PresentWrists(outcome[r].kp) = {}
    /\ response[r].error = "No wrist detected"

\* C3: in src/index.js the accepted flag of a Judgment equals (confidence >=
\* 0.1) for the confidence that Judgment carries (three decimals, so 0.1 is
\* 100 thousandths).
C3_AcceptedMatchesCarriedConfidence ==
  \A r \in Requests :
    (rev = "index" /\ Judged(r)) =>
      (response[r].accepted <=>
         response[r].confidence.units * ACCEPTANCE_THRESHOLD.den
           >= ACCEPTANCE_THRESHOLD.num * response[r].confidence.scale)

\* sample squared distances to compare a Judgment's confidence with
SampleDistSq ==
  {DistSq([a |-> Pt(0, 0), b |-> p], "a", "b") : p \in Shifted(WristAnchors)}

\* C4: the confidence used for the acceptance decision is max(0, 1 - d/T):
\* within [0, 1], 1 at d = 0 (accepted), 0 for every d >= T (not accepted),
\* 1 - d/T in between, and not larger at a larger distance.
C4_ConfidenceLaw ==
  \A r \in Requests :
    Judged(r) =>
      LET o == outcome[r]
          T == THRESHOLD_DISTANCE(rev)
          c == o.confidence
          far == o.d.inf = 1 \/ NumCmpRat(o.d, T, 1) >= 0
      IN /\ NumCmpRat(c, 0, 1) >= 0
         /\ NumCmpRat(c, 1, 1) <= 0
         /\ NumSign(o.d) = 0 => (NumCmpRat(c, 1, 1) = 0 /\ response[r].accepted)
         /\ far => (NumSign(c) = 0 /\ ~response[r].accepted)
         /\ ~far => /\ Has(o.kp, o.hand)
                    /\ c = Finite(T, -1, DistSq(o.kp, o.hand, "nose"), T)
         /\ \A m \in SampleDistSq :
              NumCmp(MathSqrt(m), o.d) >= 0 =>
                NumCmp(Confidence(MathSqrt(m), T), c) <= 0

C4_Witness ==
  /\ \E r \in Requests :
       /\ Judged(r)
       /\ NumCmpRat(outcome[r].d, THRESHOLD_DISTANCE(rev), 1) > 0
       /\ outcome[r].d.inf = 0
       /\ ~response[r].accepted
       /\ pc[r] = "done"

\* C5: in part_000 and part_001, with the nose and at least one wrist in the
\* KeypointSet, closestHand is a present wrist, no present wrist is nearer to
\* the nose, the reported distance is that wrist's, and at equal distances
\* closestHand is leftWrist.
C5_NearestOfBoth ==
  \A r \in Requests :
    (rev \in {"part_000", "part_001"} /\ Judged(r)
       /\ PresentWrists(outcome[r].kp) # {}) =>
      LET kp == outcome[r].kp
          hand == response[r].closestHand
      IN /\ hand \in PresentWrists(kp)
         /\ \A w \in PresentWrists(kp) :
              DistSq(kp, hand, "nose") <= DistSq(kp, w, "nose")
         /\ response[r].distance = Reported(DistSq(kp, hand, "nose"))
         /\ (PresentWrists(kp) = Wrists
               /\ DistSq(kp, "leftWrist", "nose") = DistSq(kp, "rightWrist", "nose"))
              => hand = "leftWrist"

C5_Witness ==
  \E r \in Requests :
    /\ rev \in {"part_000", "part_001"}
    /\ Judged(r)
    /\ PresentWrists(outcome[r].kp) = Wrists
    /\ outcome[r].kp["leftWrist"] # outcome[r].kp["rightWrist"]
    /\ DistSq(outcome[r].kp, "leftWrist", "nose")
         = DistSq(outcome[r].kp, "rightWrist", "nose")
    /\ response[r].closestHand = "leftWrist"

\* C6: in src/index.js, with the nose and both wrists in the KeypointSet, the
\* reported distance is that of the nearer wrist.
C6_IndexReportsNearest ==
  \A r \in Requests :
    (rev = "index" /\ Judged(r) /\ PresentWrists(outcome[r].kp) = Wrists) =>
      LET kp == outcome[r].kp
          dl == DistSq(kp, "leftWrist", "nose")
          dr == DistSq(kp, "rightWrist", "nose")
      IN response[r].distance = Reported(IF dl <= dr THEN dl ELSE dr)

\* C7, on the exit paths where nothing is thrown (a Judgment, a domain
\* rejection): once a request that uploaded a file has been answered, its temp
\* file is gone.
C7_NoLeftoverFiles ==
  \A r \in Requests :
    (pc[r] = "done" /\ hasFile[r] /\ thrown[r] = "none") => r \notin files

\* C8: as long as no load has failed, posenet.load is invoked at most once, the
\* warm-up runs at most once, and all requests run the estimator on the same
\* model.
C8_LoadedOnce ==
  (\A r \in Requests : thrown[r] # "load failed") =>
    /\ loadCalls <= 1
    /\ warmups <= 1
    /\ \A r1, r2 \in Requests :
         (usedNet[r1] # 0 /\ usedNet[r2] # 0) => usedNet[r1] = usedNet[r2]

\* the keypoints of an estimator output whose score is at least the minimum
AtLeastMinScore(keypoints) ==
  SelectSeq(keypoints, LAMBDA k : k.score >= MinScore)

PartsAtLeastMinScore(keypoints) ==
  {keypoints[i].part : i \in {j \in DOMAIN keypoints : keypoints[j].score >= MinScore}}

\* C9: in src/index.js the KeypointSet holds exactly the tracked parts reported
\* with score >= 0.5, and the response is the one the same output gets with its
\* keypoints of score < 0.5 removed; a part reported only below 0.5 is neither
\* a detected nose nor the selected hand.
C9_LowScoresIgnored ==
  \A r \in Requests :
    (rev = "index" /\ Decided(r)) =>
      /\ DOMAIN outcome[r].kp = TrackedParts \cap PartsAtLeastMinScore(input[r])
      /\ response[r] = Decide_index(AtLeastMinScore(input[r])).response
      /\ "nose" \notin PartsAtLeastMinScore(input[r])
           => response[r] = NoseNotDetected("index")
      /\ Judged(r) => outcome[r].hand \in PartsAtLeastMinScore(input[r])

C9_Witness ==
  \E r \in Requests :
    /\ rev = "index"
    /\ Judged(r)
    /\ pc[r] = "done"
    /\ \E i \in DOMAIN input[r] :
         /\ input[r][i].part = "rightWrist"
         /\ input[r][i].score < MinScore
    /\ outcome[r].hand = "leftWrist"

\* C10: no request is answered 500 because net.estimateSinglePose was called
\* while net was still undefined.
C10_EstimatorAfterLoad ==
  \A r \in Requests :
    response[r].status = 500 =>
      thrown[r] \in {"load failed", "image failed", "estimator failed"}

====
